---- MODULE Spec2Model ----
(***************************************************************************)
(* Model of the user administration backend of allcrypto-api (src/main.go). *)
(* The file holds two copies of the program.  Both have the same            *)
(* userActionsHandler except for the WHERE clause of the five UPDATE        *)
(* statements: the copy at lines 87-148 compares `username = $2`, the copy  *)
(* at lines 273-338 compares `LOWER(username) = LOWER($2)`.                 *)
(* The users table itself (its columns, its key) is not part of the source; *)
(* its uniqueness rule and id assignment are taken from the specification.  *)
(***************************************************************************)
EXTENDS Integers, Sequences, FiniteSets, TLC

VARIABLES
    db,        \* the users table: sequence of rows, in id order
    req,       \* the last request served (history)
    w,         \* the envelopes written to the ResponseWriter of that request
    before,    \* the users table when that request arrived (history)
    rows,      \* rows affected by the statement of that request, -1 if none ran
    calls,     \* number of store calls made while serving that request
    fresh,     \* ids of rows inserted and not yet matched by any later UPDATE
    base,      \* concurrent runs: the table when the current batch started
    pc,        \* concurrent runs: position of each in-flight handler
    preq,      \* concurrent runs: the request each handler is serving
    pres       \* concurrent runs: what each handler holds (statement, result, writer)

vars == <<db, req, w, before, rows, calls, fresh, base, pc, preq, pres>>

seqVars == <<req, w, before, rows, calls, fresh>>
concVars == <<base, pc, preq, pres>>

-----------------------------------------------------------------------------
(* Bounds *)

MaxHalves == 2     \* JSON numbers sent as indicacao: 0, 0.5, ... MaxHalves/2
NumProcs == 2      \* handlers in flight at once in the concurrent runs

-----------------------------------------------------------------------------
(* JSON values as encoding/json decodes them into map[string]interface{}.   *)
(* A number is a float64; it is kept as a count of halves so that 3.5 and   *)
(* other non-integral values exist.                                         *)

Absent == [t |-> "absent", s |-> "", n |-> 0, b |-> FALSE]
Str(x) == [t |-> "string", s |-> x, n |-> 0, b |-> FALSE]
Num(h) == [t |-> "number", s |-> "", n |-> h, b |-> FALSE]
Bool(x) == [t |-> "bool", s |-> "", n |-> 0, b |-> x]

\* v, _ := payload[k].(string)
AsString(v) == IF v.t = "string" THEN v.s ELSE ""

\* v, _ := payload[k].(bool)
AsBool(v) == IF v.t = "bool" THEN v.b ELSE FALSE

\* _, ok := payload[k].(float64)
IsFloat64(v) == v.t = "number"

\* int(f) for a float64 f = h/2: truncation toward zero
IntOfFloat(h) == IF h >= 0 THEN h \div 2 ELSE -((-h) \div 2)

IsWhole(h) == h % 2 = 0

-----------------------------------------------------------------------------
(* Usernames and SQL LOWER() *)

Usernames == {"alice", "Alice", "bob"}

Lower(u) == IF u = "Alice" THEN "alice" ELSE u

\* WHERE username = $2
WhereExact(stored, given) == stored = given

\* variant: the column compared with itself, WHERE LOWER(username) = LOWER(username)
WhereLowerSelf(stored, given) == Lower(stored) = Lower(stored)

\* WHERE LOWER(username) = LOWER($2)
WhereLower(stored, given) == Lower(stored) = Lower(given)

Where(copy, stored, given) ==
    IF copy = "lower" THEN WhereLower(stored, given) ELSE WhereExact(stored, given)

-----------------------------------------------------------------------------
(* The users table *)

NullIP == <<>>
IPOf(s) == <<s>>

\* variant: the username normalised before it is stored
NewRowLowered(id, username, password, renewalDate) ==
    [id |-> id, username |-> Lower(username), password |-> password,
     is_blocked |-> FALSE, renewal_date |-> renewalDate,
     ip |-> <<>>, indicacao |-> 0]

\* INSERT INTO users (username, password, is_blocked, renewal_date, indicacao)
\* VALUES ($1, $2, false, $3, 0); ip is not listed and stays NULL
NewRow(id, username, password, renewalDate) ==
    [id |-> id, username |-> username, password |-> password,
     is_blocked |-> FALSE, renewal_date |-> renewalDate,
     ip |-> NullIP, indicacao |-> 0]

\* the table's key: no two rows with case-equivalent usernames
UniqueViolation(t, username) ==
    \E i \in 1..Len(t) : Lower(t[i].username) = Lower(username)

\* the id the table gives the next row
NextId(t) == Len(t) + 1

NoStmt == [kind |-> "none", col |-> "", username |-> "", s |-> "", s2 |-> "",
           b |-> FALSE, n |-> 0, where |-> ""]

\* variant: the renewal statement pasted from the password statement, column not renamed
SetColPasted(r, st) ==
    CASE st.col = "password" -> [r EXCEPT !.password = st.s]
      [] st.col = "is_blocked" -> [r EXCEPT !.is_blocked = st.b]
      [] st.col = "renewal_date" -> [r EXCEPT !.password = st.s]
      [] st.col = "indicacao" -> [r EXCEPT !.indicacao = st.n]
      [] st.col = "ip" -> [r EXCEPT !.ip = <<st.s>>]
      [] OTHER -> r

\* UPDATE users SET <col> = $1
SetCol(r, st) ==
    CASE st.col = "password" -> [r EXCEPT !.password = st.s]
      [] st.col = "is_blocked" -> [r EXCEPT !.is_blocked = st.b]
      [] st.col = "renewal_date" -> [r EXCEPT !.renewal_date = st.s]
      [] st.col = "indicacao" -> [r EXCEPT !.indicacao = st.n]
      [] st.col = "ip" -> [r EXCEPT !.ip = IPOf(st.s)]
      [] OTHER -> r

Matching(t, st) == {i \in 1..Len(t) : Where(st.where, t[i].username, st.username)}

\* variant: the row read first and written back whole, SET (all columns) = (row as read
\* when the batch of requests began, with the one column changed)
ExecUpdateWholeRow(t, st) ==
    [db |-> [i \in 1..Len(t) |->
                IF i \in Matching(t, st) /\ i <= Len(base) THEN SetCol(base[i], st) ELSE t[i]],
     rows |-> Cardinality(Matching(t, st)),
     err |-> FALSE]

\* result, err = db.Exec(query, ...) for one of the five UPDATE statements
ExecUpdate(t, st) ==
    [db |-> [i \in 1..Len(t) |-> IF i \in Matching(t, st) THEN SetCol(t[i], st) ELSE t[i]],
     rows |-> Cardinality(Matching(t, st)),
     err |-> FALSE]

\* variant: INSERT ... ON CONFLICT DO UPDATE, an existing row silently overwritten
ExecInsertUpsert(t, st) ==
    IF UniqueViolation(t, st.username)
    THEN [db |-> [i \in 1..Len(t) |->
                    IF Lower(t[i].username) = Lower(st.username)
                    THEN [t[i] EXCEPT !.password = st.s, !.renewal_date = st.s2]
                    ELSE t[i]],
          rows |-> 1, err |-> FALSE]
    ELSE [db |-> Append(t, NewRow(NextId(t), st.username, st.s, st.s2)),
          rows |-> 1, err |-> FALSE]

\* result, err = db.Exec(query, username, password, renewalDate) for the INSERT
ExecInsert(t, st) ==
    IF UniqueViolation(t, st.username)
    THEN [db |-> t, rows |-> 0, err |-> TRUE]
    ELSE [db |-> Append(t, NewRow(NextId(t), st.username, st.s, st.s2)),
          rows |-> 1, err |-> FALSE]

\* db.Exec: the connection may fail, and then nothing is applied
Exec(t, st, dbOk) ==
    IF ~dbOk THEN [db |-> t, rows |-> 0, err |-> TRUE]
    ELSE IF st.kind = "insert" THEN ExecInsert(t, st)
    ELSE ExecUpdate(t, st)

-----------------------------------------------------------------------------
(* Response encoder *)

\* jsonResponse(w, statusCode, Response{Message: ..., Data: ...}): one envelope written
jsonResponse(out, statusCode, message, data) ==
    Append(out, [status |-> statusCode, message |-> message, data |-> data])

StatusMethodNotAllowed == 405
StatusBadRequest == 400
StatusInternalServerError == 500
StatusNotFound == 404
StatusOK == 200

-----------------------------------------------------------------------------
(* userActionsHandler *)

Keys == {"action", "username", "password", "renewal_date", "new_password",
         "is_blocked", "indicacao", "novo_ip"}

EmptyPayload == [k \in Keys |-> Absent]

\* json.NewDecoder(r.Body).Decode(&payload): the body `null` leaves the map nil,
\* and every lookup in a nil map finds nothing
Decode(body) == IF body.kind = "object" THEN body.p ELSE EmptyPayload

DecodeFails(body) == body.kind = "garbage"

UpdateStmt(col, p, copy) ==
    [NoStmt EXCEPT !.kind = "update", !.col = col, !.where = copy,
                   !.username = AsString(p.username)]

\* the switch on action: either the statement to run, or the 400 answered at once
Dispatch(p, copy) ==
    LET action == AsString(p.action)
        run(st) == [respond |-> FALSE, message |-> "", stmt |-> st]
        reject(m) == [respond |-> TRUE, message |-> m, stmt |-> NoStmt]
    IN  CASE action = "inserirUsuario" ->
               run([NoStmt EXCEPT !.kind = "insert",
                                  !.username = AsString(p.username),
                                  !.s = AsString(p.password),
                                  !.s2 = AsString(p.renewal_date)])
          [] action = "atualizarSenha" ->
               run([UpdateStmt("password", p, copy) EXCEPT !.s = AsString(p.new_password)])
          [] action = "bloquearUsuario" ->
               run([UpdateStmt("is_blocked", p, copy) EXCEPT !.b = AsBool(p.is_blocked)])
          [] action = "atualizarRenovacao" ->
               run([UpdateStmt("renewal_date", p, copy) EXCEPT !.s = AsString(p.renewal_date)])
          [] action = "atualizarIndicacao" ->
               IF ~IsFloat64(p.indicacao)
               THEN reject("Valor de indicacao invalido")
               ELSE run([UpdateStmt("indicacao", p, copy)
                            EXCEPT !.n = IntOfFloat(p.indicacao.n)])
          [] action = "atualizarIP" ->
               run([UpdateStmt("ip", p, copy) EXCEPT !.s = AsString(p.novo_ip)])
          [] OTHER -> reject("Acao desconhecida")

\* variant: the rowsAffected == 0 test left out
FinishNoRowTest(out, e) ==
    IF e.err THEN jsonResponse(out, StatusInternalServerError, "Erro ao executar acao", <<>>)
    ELSE jsonResponse(out, StatusOK, "executada com sucesso", <<>>)

\* variant: the return after the 404 answer left out
FinishNoReturn(out, e) ==
    IF e.err THEN jsonResponse(out, StatusInternalServerError, "Erro ao executar acao", <<>>)
    ELSE IF e.rows = 0
         THEN jsonResponse(jsonResponse(out, StatusNotFound, "Nenhum usuario encontrado", <<>>),
                           StatusOK, "executada com sucesso", <<>>)
         ELSE jsonResponse(out, StatusOK, "executada com sucesso", <<>>)

\* after db.Exec: err != nil, then rowsAffected == 0, then success
Finish(out, e) ==
    IF e.err THEN jsonResponse(out, StatusInternalServerError, "Erro ao executar acao", <<>>)
    ELSE IF e.rows = 0
         THEN jsonResponse(out, StatusNotFound, "Nenhum usuario encontrado", <<>>)
         ELSE jsonResponse(out, StatusOK, "executada com sucesso", <<>>)

NoRows == 0 - 1

Answer(t, out) == [db |-> t, w |-> out, rows |-> NoRows, calls |-> 0]

\* variant: the indicacao statement run before its `if !ok` test
HandleTestAfterExec(t, r, copy, dbOk) ==
    IF r.method # "POST"
    THEN Answer(t, jsonResponse(<<>>, StatusMethodNotAllowed, "Metodo nao permitido", <<>>))
    ELSE IF DecodeFails(r.body)
    THEN Answer(t, jsonResponse(<<>>, StatusBadRequest, "Requisicao invalida", <<>>))
    ELSE LET p == Decode(r.body)
             d == Dispatch(p, copy) IN
         IF d.respond /\ AsString(p.action) = "atualizarIndicacao"
         THEN [db |-> Exec(t, UpdateStmt("indicacao", p, copy), dbOk).db,
               w |-> jsonResponse(<<>>, StatusBadRequest, d.message, <<>>),
               rows |-> NoRows, calls |-> 1]
         ELSE IF d.respond
         THEN Answer(t, jsonResponse(<<>>, StatusBadRequest, d.message, <<>>))
         ELSE LET e == Exec(t, d.stmt, dbOk) IN
              [db |-> e.db, w |-> Finish(<<>>, e),
               rows |-> IF e.err THEN NoRows ELSE e.rows, calls |-> 1]

\* the whole handler, for either copy of the program
Handle(t, r, copy, dbOk) ==
    IF r.method # "POST"
    THEN Answer(t, jsonResponse(<<>>, StatusMethodNotAllowed, "Metodo nao permitido", <<>>))
    ELSE IF DecodeFails(r.body)
    THEN Answer(t, jsonResponse(<<>>, StatusBadRequest, "Requisicao invalida", <<>>))
    ELSE LET d == Dispatch(Decode(r.body), copy) IN
         IF d.respond
         THEN Answer(t, jsonResponse(<<>>, StatusBadRequest, d.message, <<>>))
         ELSE LET e == Exec(t, d.stmt, dbOk) IN
              [db |-> e.db, w |-> Finish(<<>>, e),
               rows |-> IF e.err THEN NoRows ELSE e.rows, calls |-> 1]

\* the copy at lines 87-148
userActionsHandlerExact(t, r, dbOk) == Handle(t, r, "exact", dbOk)

\* the copy at lines 273-338
userActionsHandler(t, r, dbOk) == Handle(t, r, "lower", dbOk)

Serve(t, r) ==
    IF r.copy = "lower" THEN userActionsHandler(t, r, r.dbOk)
    ELSE userActionsHandlerExact(t, r, r.dbOk)

-----------------------------------------------------------------------------
(* listarUsuariosHandler *)

\* rows.Scan into User; Password carries json:"-" and is not selected
Listed(r) == [id |-> r.id, username |-> r.username, is_blocked |-> r.is_blocked,
              renewal_date |-> r.renewal_date, ip |-> r.ip, indicacao |-> r.indicacao]

listarUsuariosHandler(t, r, dbOk) ==
    IF r.method # "GET"
    THEN [w |-> jsonResponse(<<>>, StatusMethodNotAllowed, "Metodo nao permitido", <<>>),
          calls |-> 0]
    ELSE IF ~dbOk
    THEN [w |-> jsonResponse(<<>>, StatusInternalServerError, "Erro ao buscar usuarios", <<>>),
          calls |-> 1]
    ELSE [w |-> jsonResponse(<<>>, StatusOK, "Usuarios listados com sucesso",
                             [i \in 1..Len(t) |-> Listed(t[i])]),
          calls |-> 1]

-----------------------------------------------------------------------------
(* Requests *)

Garbage == [kind |-> "garbage", p |-> EmptyPayload]
NullBody == [kind |-> "null", p |-> EmptyPayload]
Object(p) == [kind |-> "object", p |-> p]

With(a, u) == [EmptyPayload EXCEPT !.action = Str(a), !.username = u]

Names == {Str(u) : u \in Usernames}

Texts(x) == {Absent, Str(x)}

\* fields a create request may carry besides the three the INSERT reads
ExtraFields(p) == [p EXCEPT !.is_blocked = Bool(TRUE), !.indicacao = Num(2),
                            !.novo_ip = Str("i")]

CreatePayloads ==
    {[With("inserirUsuario", u) EXCEPT !.password = pw, !.renewal_date = rd] :
        u \in Names, pw \in Texts("p"), rd \in Texts("d")}
    \cup {ExtraFields([With("inserirUsuario", u) EXCEPT !.password = Str("p"),
                                                        !.renewal_date = Str("d")]) :
        u \in Names}

IndicacaoVals == {Absent, Str("1")} \cup {Num(h) : h \in 0..MaxHalves}

UpdatePayloads ==
    {[With("atualizarSenha", u) EXCEPT !.new_password = x] :
        u \in Names, x \in Texts("p")}
    \cup {[With("bloquearUsuario", u) EXCEPT !.is_blocked = x] :
        u \in Names, x \in {Bool(TRUE), Bool(FALSE), Str("true")}}
    \cup {[With("atualizarRenovacao", u) EXCEPT !.renewal_date = x] :
        u \in Names, x \in Texts("d")}
    \cup {[With("atualizarIndicacao", u) EXCEPT !.indicacao = x] :
        u \in Names, x \in IndicacaoVals}
    \cup {[With("atualizarIP", u) EXCEPT !.novo_ip = x] :
        u \in Names, x \in {Str("i")}}
    \cup {[With("bloquearUsuario", u) EXCEPT !.is_blocked = Bool(TRUE)] :
        u \in {Absent, Num(2)}}

OtherPayloads ==
    {[EmptyPayload EXCEPT !.action = a, !.username = Str("alice")] :
        a \in {Str("deleteEverything"), Absent, Num(2)}}

Bodies == {Garbage, NullBody} \cup {Object(p) : p \in CreatePayloads \cup UpdatePayloads \cup OtherPayloads}

\* the requests during which the connection to the database is lost
FailBodies == {b \in Bodies : b.p.username = Str("alice") /\ b.p.indicacao.t # "string"
                                 /\ b.p.novo_ip = Absent}

UserActionRequests ==
    {[endpoint |-> "/api/user-action", method |-> "POST", body |-> b, copy |-> c, dbOk |-> TRUE] :
        b \in Bodies, c \in {"exact", "lower"}}
    \cup {[endpoint |-> "/api/user-action", method |-> "POST", body |-> b, copy |-> c,
           dbOk |-> FALSE] : b \in FailBodies, c \in {"exact", "lower"}}
    \cup {[endpoint |-> "/api/user-action", method |-> "GET", body |-> NullBody,
           copy |-> c, dbOk |-> TRUE] : c \in {"exact", "lower"}}

ListRequests ==
    {[endpoint |-> "/api/usuarios", method |-> m, body |-> NullBody, copy |-> "lower",
      dbOk |-> ok] : m \in {"GET", "POST"}, ok \in BOOLEAN}

NoRequest == [endpoint |-> "", method |-> "", body |-> NullBody, copy |-> "", dbOk |-> TRUE]

Action(r) == AsString(Decode(r.body).action)
Username(r) == AsString(Decode(r.body).username)

UpdateActions == {"atualizarSenha", "bloquearUsuario", "atualizarRenovacao",
                  "atualizarIndicacao", "atualizarIP"}

\* r reaches the switch of userActionsHandler
Dispatched(r) ==
    r.endpoint = "/api/user-action" /\ r.method = "POST" /\ ~DecodeFails(r.body)

IsCreate(r) == Dispatched(r) /\ Action(r) = "inserirUsuario"
IsUpdate(r) == Dispatched(r) /\ Action(r) \in UpdateActions

-----------------------------------------------------------------------------
(* Sequential runs: one request at a time *)

NoResult == [db |-> <<>>, rows |-> 0, err |-> FALSE]

NoProc == [stmt |-> NoStmt, e |-> NoResult, w |-> <<>>]

Procs == 1..NumProcs

Init ==
    /\ db = <<>>
    /\ req = NoRequest
    /\ w = <<>>
    /\ before = <<>>
    /\ rows = NoRows
    /\ calls = 0
    /\ fresh = {}
    /\ base = <<>>
    /\ pc = [i \in Procs |-> "idle"]
    /\ preq = [i \in Procs |-> NoRequest]
    /\ pres = [i \in Procs |-> NoProc]

\* ids of the rows the request's UPDATE matched
Touched(t, r) ==
    IF IsUpdate(r) /\ r.dbOk /\ ~Dispatch(Decode(r.body), r.copy).respond
    THEN {t[i].id : i \in Matching(t, Dispatch(Decode(r.body), r.copy).stmt)}
    ELSE {}

Inserted(t, t2) == {t2[i].id : i \in (Len(t) + 1)..Len(t2)}

UserActionOf(copy) ==
    \E r \in UserActionRequests :
        /\ req = NoRequest
        /\ r.copy = copy
        /\ LET res == Serve(db, r) IN
            /\ db' = res.db
            /\ w' = res.w
            /\ rows' = res.rows
            /\ calls' = res.calls
            /\ fresh' = (fresh \ Touched(db, r)) \cup Inserted(db, res.db)
        /\ req' = r
        /\ before' = db
        /\ UNCHANGED concVars

UserAction == UserActionOf("lower")

UserActionExact == UserActionOf("exact")

ListUsers ==
    \E r \in ListRequests :
        /\ req = NoRequest
        /\ LET res == listarUsuariosHandler(db, r, r.dbOk) IN
            /\ w' = res.w
            /\ calls' = res.calls
        /\ req' = r
        /\ before' = db
        /\ rows' = NoRows
        /\ UNCHANGED <<db, fresh>>
        /\ UNCHANGED concVars

\* the handler has returned: the server is ready for the next request
Served ==
    /\ req # NoRequest
    /\ req' = NoRequest
    /\ w' = <<>>
    /\ before' = <<>>
    /\ rows' = NoRows
    /\ calls' = 0
    /\ UNCHANGED <<db, fresh>>
    /\ UNCHANGED concVars

Next == UserAction \/ UserActionExact \/ ListUsers \/ Served

Spec == Init /\ [][Next]_vars

-----------------------------------------------------------------------------
(* What the last request looked like from outside *)

Answered == req # NoRequest /\ Len(w) >= 1
Status == w[1].status
OnUserAction == req.endpoint = "/api/user-action"
OnListing == req.endpoint = "/api/usuarios"
Payload == Decode(req.body)

Columns == {"id", "username", "password", "is_blocked", "renewal_date", "ip", "indicacao"}

ColumnOf(action) ==
    CASE action = "atualizarSenha" -> "password"
      [] action = "bloquearUsuario" -> "is_blocked"
      [] action = "atualizarRenovacao" -> "renewal_date"
      [] action = "atualizarIndicacao" -> "indicacao"
      [] action = "atualizarIP" -> "ip"
      [] OTHER -> ""

SameExcept(r1, r2, col) == \A f \in Columns \ {col} : r1[f] = r2[f]

\* the value the request asks to be written, as the column holds it
Written(r, p) ==
    CASE Action(req) = "atualizarSenha" -> r.password = AsString(p.new_password)
      [] Action(req) = "bloquearUsuario" -> r.is_blocked = AsBool(p.is_blocked)
      [] Action(req) = "atualizarRenovacao" -> r.renewal_date = AsString(p.renewal_date)
      [] Action(req) = "atualizarIndicacao" ->
            /\ p.indicacao.t = "number"
            /\ 2 * r.indicacao <= p.indicacao.n
            /\ p.indicacao.n < 2 * r.indicacao + 2
      [] Action(req) = "atualizarIP" -> r.ip = IPOf(AsString(p.novo_ip))
      [] OTHER -> FALSE

FractionalIndicacao ==
    /\ OnUserAction /\ Dispatched(req) /\ Action(req) = "atualizarIndicacao"
    /\ Payload.indicacao.t = "number" /\ ~IsWhole(Payload.indicacao.n)

\* rows of t whose username equals u up to letter case
SameNameRows(t, u) == {i \in 1..Len(t) : Lower(t[i].username) = Lower(u)}
ExactNameRows(t, u) == {i \in 1..Len(t) : t[i].username = u}

-----------------------------------------------------------------------------
(* C1: a set-referral request (atualizarIndicacao) whose indicacao is a     *)
(* number that is not whole is answered 400, makes no store call and leaves *)
(* every row as it was, for every username.                                 *)
C1_FractionalRejected ==
    (FractionalIndicacao /\ req.dbOk) =>
        /\ Len(w) = 1 /\ Status = StatusBadRequest
        /\ calls = 0
        /\ db = before

(* C2: for every update action and every table, a username that differs    *)
(* from a stored one only by letter case gives the same affected-row count, *)
(* the same status and the same resulting table as the exact-case username. *)
C2_CaseInsensitive ==
    (Answered /\ IsUpdate(req)) =>
        \A i \in SameNameRows(before, Username(req)) :
            LET exact == Serve(before,
                               [req EXCEPT !.body.p.username = Str(before[i].username)])
            IN  /\ rows = exact.rows
                /\ Status = exact.w[1].status
                /\ db = exact.db

\* the copy at lines 273-338 alone does treat case variants alike
C2_LowerCopyCaseInsensitive == req.copy = "lower" => C2_CaseInsensitive

(* C3: a create request (inserirUsuario) for a username that an existing    *)
(* row already has, exactly or up to letter case, is answered 500, adds no  *)
(* row and changes no field of any row.                                     *)
C3_DuplicateCreateFails ==
    (Answered /\ IsCreate(req) /\ SameNameRows(before, Username(req)) # {}) =>
        /\ Len(w) = 1 /\ Status = StatusInternalServerError
        /\ db = before

C3_Witness ==
    /\ Answered /\ IsCreate(req) /\ req.dbOk
    /\ SameNameRows(before, Username(req)) # {}
    /\ ExactNameRows(before, Username(req)) = {}
    /\ Status = StatusInternalServerError

C5_ValidationNoStore ==
    (Answered /\ OnUserAction /\ Status = StatusBadRequest) =>
        /\ calls = 0
        /\ db = before

C5_Witness ==
    /\ Answered /\ OnUserAction /\ Status = StatusBadRequest
    /\ Action(req) = "atualizarIndicacao"
    /\ ExactNameRows(before, Username(req)) # {}
    /\ calls = 0

(* C6: every call of the user-action handler writes exactly one envelope,   *)
(* with status 405 for a non-POST method, 400 for a validation error, 500   *)
(* for an execution error, 404 for zero affected rows and 200 for success.  *)
C6_OneEnvelope ==
    (req # NoRequest /\ OnUserAction) =>
        /\ Len(w) = 1
        /\ Status =
             IF req.method # "POST" THEN StatusMethodNotAllowed
             ELSE IF \/ DecodeFails(req.body)
                     \/ Action(req) \notin UpdateActions \cup {"inserirUsuario"}
                     \/ (Action(req) = "atualizarIndicacao" /\ Payload.indicacao.t # "number")
                  THEN StatusBadRequest
             ELSE IF ~req.dbOk \/ (IsCreate(req) /\ SameNameRows(before, Username(req)) # {})
                  THEN StatusInternalServerError
             ELSE IF rows = 0 THEN StatusNotFound
             ELSE StatusOK

C6_Witness ==
    /\ req # NoRequest /\ OnUserAction
    /\ Len(w) = 1 /\ Status = StatusNotFound
    /\ Len(before) > 0

(* C7: in every reachable table at most one row matches any username under  *)
(* the case-insensitive comparison, and every update statement affects at   *)
(* most one row.                                                            *)
C7_AtMostOneRow ==
    /\ \A u \in Usernames \cup {""} : Cardinality(SameNameRows(db, u)) <= 1
    /\ (Answered /\ IsUpdate(req) /\ rows # NoRows) => rows <= 1

C7_Witness ==
    /\ Answered /\ IsUpdate(req) /\ req.copy = "lower"
    /\ Len(db) = 2
    /\ ExactNameRows(before, Username(req)) = {}
    /\ rows = 1

(* C8: a successful update sets the one column of its action in the row it  *)
(* targets and leaves every other column of that row, id and username       *)
(* included, and every other row as they were; no request removes a row.    *)
C8_Frame ==
    /\ (Answered /\ IsUpdate(req) /\ Status = StatusOK) =>
          /\ Len(db) = Len(before)
          /\ \E i \in 1..Len(db) :
                /\ Where(req.copy, before[i].username, Username(req))
                /\ SameExcept(db[i], before[i], ColumnOf(Action(req)))
                /\ Written(db[i], Payload)
                /\ \A j \in (1..Len(db)) \ {i} : db[j] = before[j]
    /\ req # NoRequest =>
          /\ Len(db) >= Len(before)
          /\ \A i \in 1..Len(before) :
                db[i].id = before[i].id /\ db[i].username = before[i].username

C8_Witness ==
    /\ Answered /\ IsUpdate(req) /\ Status = StatusOK
    /\ Len(db) = 2
    /\ db # before

(* C10: after a successful create of a new username, a listing made before  *)
(* any update of that user holds exactly one record for the username, in    *)
(* the case given, with is_blocked false, indicacao 0 and no ip, whatever   *)
(* other fields the create request carried.                                 *)
C10_CreatedAsListed ==
    /\ (Answered /\ IsCreate(req) /\ Status = StatusOK) =>
          \E i \in 1..Len(db) : db[i].id \in fresh /\ db[i].username = Username(req)
    /\ (Answered /\ OnListing /\ Status = StatusOK) =>
          LET data == w[1].data IN
          \A id \in fresh :
             \E i \in 1..Len(data) :
                /\ data[i].id = id
                /\ data[i].username = before[id].username
                /\ data[i].is_blocked = FALSE
                /\ data[i].indicacao = 0
                /\ data[i].ip = NullIP
                /\ \A j \in 1..Len(data) :
                      data[j].username = data[i].username => j = i

C10_Witness ==
    /\ Answered /\ OnListing /\ Status = StatusOK
    /\ \E i \in 1..Len(db) : db[i].id \in fresh /\ db[i].username = "Alice"
    /\ Len(w[1].data) = 2

-----------------------------------------------------------------------------
(* Concurrent runs: net/http serves each request on its own goroutine.  The *)
(* handler shares nothing with the others but db; its only blocking step is *)
(* db.Exec, which the database runs as one statement.                       *)

ConcNames == {Str("alice"), Str("Alice")}

ConcPayloads ==
    {[With("atualizarSenha", u) EXCEPT !.new_password = x] :
        u \in ConcNames, x \in Texts("q")}
    \cup {[With("bloquearUsuario", u) EXCEPT !.is_blocked = Bool(x)] :
        u \in ConcNames, x \in BOOLEAN}
    \cup {[With("atualizarIndicacao", u) EXCEPT !.indicacao = x] :
        u \in ConcNames, x \in {Num(2), Num(4)}}
    \cup {[With("atualizarIndicacao", Str("alice")) EXCEPT !.indicacao = Str("1")]}

ConcRequests ==
    {[endpoint |-> "/api/user-action", method |-> "POST", body |-> Object(p),
      copy |-> "lower", dbOk |-> TRUE] : p \in ConcPayloads}

\* the table after {"action":"inserirUsuario","username":"alice","password":"p",
\* "renewal_date":"d"} on the empty table
OneUser ==
    ExecInsert(<<>>, Dispatch([With("inserirUsuario", Str("alice"))
                                  EXCEPT !.password = Str("p"), !.renewal_date = Str("d")],
                              "lower").stmt).db

InitConc ==
    /\ db = OneUser
    /\ req = NoRequest
    /\ w = <<>>
    /\ before = <<>>
    /\ rows = NoRows
    /\ calls = 0
    /\ fresh = {}
    /\ base = <<>>
    /\ pc = [i \in Procs |-> "idle"]
    /\ preq = [i \in Procs |-> NoRequest]
    /\ pres = [i \in Procs |-> NoProc]

\* lines 275-326: method, decode, switch; the handler now stands before db.Exec,
\* or has answered 405/400 and returned
Receive(i) ==
    /\ pc[i] = "idle"
    /\ \E r \in ConcRequests :
        /\ preq' = [preq EXCEPT ![i] = r]
        /\ LET d == Dispatch(Decode(r.body), r.copy) IN
           IF r.method # "POST"
           THEN /\ pc' = [pc EXCEPT ![i] = "done"]
                /\ pres' = [pres EXCEPT ![i].w =
                      jsonResponse(<<>>, StatusMethodNotAllowed, "Metodo nao permitido", <<>>)]
           ELSE IF DecodeFails(r.body)
           THEN /\ pc' = [pc EXCEPT ![i] = "done"]
                /\ pres' = [pres EXCEPT ![i].w =
                      jsonResponse(<<>>, StatusBadRequest, "Requisicao invalida", <<>>)]
           ELSE IF d.respond
           THEN /\ pc' = [pc EXCEPT ![i] = "done"]
                /\ pres' = [pres EXCEPT ![i].w =
                      jsonResponse(<<>>, StatusBadRequest, d.message, <<>>)]
           ELSE /\ pc' = [pc EXCEPT ![i] = "exec"]
                /\ pres' = [pres EXCEPT ![i].stmt = d.stmt]
    /\ base' = IF \A j \in Procs : pc[j] = "idle" THEN db ELSE base
    /\ UNCHANGED db
    /\ UNCHANGED seqVars

\* result, err = db.Exec(query, ...): one statement, applied by the database at once
Execute(i) ==
    /\ pc[i] = "exec"
    /\ LET e == Exec(db, pres[i].stmt, preq[i].dbOk) IN
        /\ db' = e.db
        /\ pres' = [pres EXCEPT ![i].e = [e EXCEPT !.db = <<>>]]
    /\ pc' = [pc EXCEPT ![i] = "respond"]
    /\ UNCHANGED <<base, preq>>
    /\ UNCHANGED seqVars

\* lines 327-336: the answer for the result the handler holds
Respond(i) ==
    /\ pc[i] = "respond"
    /\ pres' = [pres EXCEPT ![i].w = Finish(<<>>, pres[i].e)]
    /\ pc' = [pc EXCEPT ![i] = "done"]
    /\ UNCHANGED <<db, base, preq>>
    /\ UNCHANGED seqVars

AllDone == \A i \in Procs : pc[i] = "done"

\* every handler of the batch has returned
BatchServed ==
    /\ AllDone
    /\ pc' = [i \in Procs |-> "idle"]
    /\ preq' = [i \in Procs |-> NoRequest]
    /\ pres' = [i \in Procs |-> NoProc]
    /\ base' = <<>>
    /\ UNCHANGED db
    /\ UNCHANGED seqVars

NextConc ==
    \/ \E i \in Procs : Receive(i)
    \/ \E i \in Procs : Execute(i)
    \/ \E i \in Procs : Respond(i)
    \/ BatchServed

SpecConc == InitConc /\ [][NextConc]_vars

-----------------------------------------------------------------------------
\* the requests of the batch served one after the other, in the order given
RECURSIVE Serial(_, _)
Serial(t, order) ==
    IF order = <<>> THEN t
    ELSE Serial(Serve(t, preq[Head(order)]).db, Tail(order))

Orders == {o \in [1..NumProcs -> Procs] : \A i, j \in 1..NumProcs : o[i] = o[j] => i = j}

ColumnAsked(i) == ColumnOf(Action(preq[i]))

\* the row holds, in the column request i names, the value request i sent
Holds(r, i) ==
    LET p == Decode(preq[i].body) IN
    CASE ColumnAsked(i) = "password" -> r.password = AsString(p.new_password)
      [] ColumnAsked(i) = "is_blocked" -> r.is_blocked = AsBool(p.is_blocked)
      [] ColumnAsked(i) = "indicacao" -> 2 * r.indicacao = p.indicacao.n
      [] OTHER -> FALSE

Succeeded(i) == Len(pres[i].w) = 1 /\ pres[i].w[1].status = StatusOK

(* C9: when requests for the same username run concurrently, under every   *)
(* interleaving the final table is the one some serial order of the same    *)
(* requests gives: each column holds the value of one of the requests that  *)
(* wrote it, and a write to one column is never lost to a concurrent write  *)
(* to another column of the same row.                                       *)
C9_Serializable ==
    AllDone =>
        /\ \E o \in Orders : db = Serial(base, o)
        /\ \A k \in 1..Len(db) :
              /\ \A i \in Procs :
                    (Succeeded(i) /\ \A j \in Procs \ {i} : ColumnAsked(j) # ColumnAsked(i))
                        => Holds(db[k], i)
              /\ \A c \in {"password", "is_blocked", "indicacao"} :
                    \/ db[k][c] = base[k][c] /\ \A i \in Procs : Succeeded(i) => ColumnAsked(i) # c
                    \/ \E i \in Procs : Succeeded(i) /\ ColumnAsked(i) = c /\ Holds(db[k], i)

C9_Witness ==
    /\ AllDone
    /\ \E i, j \in Procs :
          /\ ColumnAsked(i) = "password" /\ ColumnAsked(j) = "indicacao"
          /\ Username(preq[i]) # Username(preq[j])
          /\ Succeeded(i) /\ Succeeded(j)
    /\ db[1].password # base[1].password
    /\ db[1].indicacao # base[1].indicacao

====
